---- MODULE Spec2Model ----
(***************************************************************************)
(* Doubt-resolution engine of the EtaOTT backend: the ask / escalate /     *)
(* answer routes (src/routes/doubt.routes.js), the answer generator, the   *)
(* confidence scorer and the semantic memory (src/services/ai.service.js)  *)
(* and the guest quota (src/middleware/guestRateLimit.middleware.js).      *)
(***************************************************************************)
EXTENDS Integers, Sequences, FiniteSets, TLC

(***************************************************************************)
(* Bounds and small input domains                                          *)
(***************************************************************************)
WindowTicks == 2        \* clock ticks that make up the 86400 s expiry
MaxGuestRequests == 5   \* guest requests per behaviour

\* the model follows one doubt document: the handlers address a document by id
DoubtIds == {1}
Null == "null"
None == -1              \* an absent number: a missing key, no expiry, no confidence
NoDoubt == [status |-> "none"]

\* representative query strings, classified as askGroq's regular expressions do
Queries == {"hi", "explain this", "what is a stack"}
\* texts the provider can return: length and formatting-quality score
Texts == { [len |-> 450, fmt |-> 50], [len |-> 450, fmt |-> 20], [len |-> 150, fmt |-> 20] }
\* similarities (in percent) the vector index can report for a stored question
\* the canned text of a conversational short-circuit, and no text at all
Canned == [len |-> 0, fmt |-> 0]
NoText == [len |-> -1, fmt |-> -1]
AnswerTexts == Texts \cup {Canned}
Sims == {84, 85, 92}
Faculty == {"f1"}
ContentId == "c1"

VARIABLES
    doubts,      \* Doubt collection: DoubtIds -> document or NoDoubt
    ask,         \* the ask request in flight (one at a time)
    kgQ,         \* semantic memory: Question nodes (set of query texts)
    kgA,         \* semantic memory: Answer nodes, text -> confidence or None
    kgD,         \* semantic memory: Doubt nodes, queryKey -> confidence or None
    esc,         \* the escalate request in flight
    ans,         \* the answer request in flight
    redisVal,    \* guest counter key: value, or None when the key is absent
    redisTTL,    \* guest counter key: ticks to live, or None when no expiry is set
    guest,       \* the guest request in flight
    win,         \* quota window of the guest: open flag, age, requests admitted
    nReq,        \* guest requests started so far
    processingStatus,   \* Content document: processingStatus, "none" before upload
    itemType,        \* Content document: type
    job,                \* processContent runs: Jobs -> position and loaded document
    activeControllers,  \* ml.service Map entry of the content id: the job whose
                        \* controller is registered, or 0
    cancel,             \* the cancel-processing request in flight
    rep,                \* the reprocess request in flight
    cancelled,          \* a cancel was accepted and no reprocess followed it
    lookup,             \* the last call of searchKnowledgeGraph: inputs and result
    calc,               \* the last call of calculateConfidence: inputs and result
    ground,             \* the last run of the grounding builder: inputs and result
    fan,                \* the notification fan-out of the escalate request in flight
    kgC,                \* semantic memory: RELATES_TO links, question -> set of courses
    courseLive          \* the Course document of the doubts: "live", "deleting", "deleted"

doubtVars == <<doubts, ask, kgQ, kgA, kgD, esc, ans>>
guestVars == <<redisVal, redisTTL, guest, win, nReq>>
contentVars == <<processingStatus, itemType, job, activeControllers, cancel, rep, cancelled>>
vars == <<doubts, ask, kgQ, kgA, kgD, esc, ans, redisVal, redisTTL, guest, win, nReq,
          processingStatus, itemType, job, activeControllers, cancel, rep, cancelled,
          lookup, calc, ground, fan, kgC, courseLive>>
pureVars == <<lookup, calc, ground>>
sideVars == <<fan, kgC, courseLive>>

(***************************************************************************)
(* Confidence scorer (src/services/ai.service.js)                          *)
(***************************************************************************)
Min(a, b) == IF a < b THEN a ELSE b
Max(a, b) == IF a > b THEN a ELSE b

\* Math.round on a value given in hundredths
Round100(x) == (x + 50) \div 100

\* a context score in which a selection replaces the other signals
contextScoreExclusive(hasSelectedText, hasContext, hasVisualContext) ==
    IF hasSelectedText THEN 12
    ELSE (IF hasContext THEN 8 ELSE 0) + (IF hasVisualContext THEN 5 ELSE 0)

contextScore(hasSelectedText, hasContext, hasVisualContext) ==
    Min(25, (IF hasSelectedText THEN 12 ELSE 0)
          + (IF hasContext THEN 8 ELSE 0)
          + (IF hasVisualContext THEN 5 ELSE 0))

responseScore(responseLength) ==
    IF responseLength >= 400 THEN 20
    ELSE IF responseLength >= 200 THEN 15
    ELSE IF responseLength >= 100 THEN 10
    ELSE 5

\* the rounded sum returned without the final clamp
calculateConfidenceUnclamped(p) ==
    LET aiWeight == IF p.isVerifiedSource THEN 50 ELSE 35
        aiScore == Min(100, Max(0, p.aiConfidence)) * aiWeight
        ctx == contextScore(p.hasSelectedText, p.hasContext, p.hasVisualContext)
        formattingScore == p.hasFormatting * 20
        sourceBonus == IF p.isVerifiedSource THEN 10 ELSE 0
    IN Round100(aiScore + 100 * ctx + 100 * responseScore(p.responseLength)
                + formattingScore + 100 * sourceBonus)

\* finalScore of calculateConfidence; the sum is kept in hundredths
calculateConfidence(p) ==
    LET aiWeight == IF p.isVerifiedSource THEN 50 ELSE 35
        aiScore == Min(100, Max(0, p.aiConfidence)) * aiWeight
        ctx == contextScore(p.hasSelectedText, p.hasContext, p.hasVisualContext)
        formattingScore == p.hasFormatting * 20
        sourceBonus == IF p.isVerifiedSource THEN 10 ELSE 0
        finalScore == Round100(aiScore + 100 * ctx + 100 * responseScore(p.responseLength)
                               + formattingScore + 100 * sourceBonus)
    IN Min(100, Max(0, finalScore))

(***************************************************************************)
(* Answer generator (src/services/ai.service.js, askGroq)                  *)
(***************************************************************************)
isGreeting(query) == query \in {"hi"}
isVagueExplain(query) == query \in {"explain this"}
QueryLength(query) ==
    CASE query = "hi" -> 2
      [] query = "explain this" -> 12
      [] OTHER -> 15

ProviderOutcomes == {"ok", "401", "413", "429", "timeout"}
Unavailable == "AI Tutor is currently unavailable."

\* what the catch handler at the end of askGroq rethrows for a thrown message
askGroqCatch(message) == Unavailable

\* the body of askGroq's try block: a returned result, or a thrown message
askGroqTry(query, hasContext, hasVisualContext, hasSelectedText, hasKey, provider, text) ==
    IF ~hasKey THEN [thrown |-> "NO_API_KEY", invoked |-> FALSE]
    ELSE IF isGreeting(query) /\ QueryLength(query) < 20
    THEN [thrown |-> Null, invoked |-> FALSE, confidence |-> 100, isConversational |-> TRUE]
    ELSE IF isVagueExplain(query) /\ ~(hasSelectedText \/ hasVisualContext)
    THEN [thrown |-> Null, invoked |-> FALSE, confidence |-> 90, isConversational |-> TRUE]
    ELSE IF provider \in {"413", "429"} THEN [thrown |-> "API_LIMIT_REACHED", invoked |-> TRUE]
    ELSE IF provider = "401" THEN [thrown |-> "INVALID_API_KEY", invoked |-> TRUE]
    ELSE IF provider # "ok" THEN [thrown |-> "timeout of 30000ms exceeded", invoked |-> TRUE]
    ELSE [thrown |-> Null, invoked |-> TRUE, isConversational |-> FALSE,
          confidence |-> calculateConfidence([aiConfidence |-> 85,
                             hasContext |-> hasContext,
                             hasSelectedText |-> hasSelectedText,
                             hasVisualContext |-> hasVisualContext,
                             responseLength |-> text.len,
                             hasFormatting |-> text.fmt,
                             isVerifiedSource |-> FALSE])]

askGroq(query, hasContext, hasVisualContext, hasSelectedText, hasKey, provider, text) ==
    LET r == askGroqTry(query, hasContext, hasVisualContext, hasSelectedText, hasKey, provider, text)
    IN IF r.thrown # Null
       THEN [thrown |-> askGroqCatch(r.thrown), cause |-> r.thrown, invoked |-> r.invoked]
       ELSE [thrown |-> Null, cause |-> Null, invoked |-> r.invoked,
             confidence |-> r.confidence, isConversational |-> r.isConversational]

(***************************************************************************)
(* Semantic memory (src/services/ai.service.js)                            *)
(***************************************************************************)
RouteSaveThreshold == 70
ResolveThreshold == 80
\* a floor that lets candidates between 0.75 and 0.85 through
SimilarityFloorLax == RouteSaveThreshold + 5
SimilarityFloor == 85
\* a cache-hit threshold above the similarity floor
CacheHitThresholdHigh == SimilarityFloor + 5
CacheHitThreshold == 85
\* the service gate lowered to the route's gate
SaveThresholdLow == RouteSaveThreshold
SaveThreshold == 80

NoMatch == [match |-> FALSE, confidence |-> 0]

\* an ordering by similarity alone
BetterBySimilarity(a, b) == a.sim >= b.sim

\* ORDER BY isSameCourse DESC, score DESC
Better(a, b) == (a.same /\ ~b.same) \/ (a.same = b.same /\ a.sim >= b.sim)

\* cands: the rows of the vector query, [q, sim (percent), same (course)]
searchKnowledgeGraph(embedOk, storeOk, cands) ==
    IF ~embedOk THEN NoMatch
    ELSE IF ~storeOk THEN NoMatch
    ELSE LET rows == {c \in cands : c.sim >= SimilarityFloor}
         IN IF rows = {} THEN NoMatch
            ELSE LET best == CHOOSE c \in rows : \A o \in rows : Better(c, o)
                 IN [match |-> TRUE, confidence |-> best.sim]

\* the route's test of the lookup result: kgResult && kgResult.confidence >= 85
CacheHit(kgResult) == kgResult.match /\ kgResult.confidence >= CacheHitThreshold

\* saveToKnowledgeGraph: the return value and the memory it leaves
saveToKnowledgeGraph(query, text, confidence, embedOk, storeOk) ==
    IF confidence < SaveThreshold
    THEN [ret |-> "null", embedded |-> FALSE, q |-> kgQ, a |-> kgA]
    ELSE IF ~embedOk THEN [ret |-> "null", embedded |-> TRUE, q |-> kgQ, a |-> kgA]
    ELSE IF ~storeOk THEN [ret |-> "false", embedded |-> TRUE, q |-> kgQ, a |-> kgA]
    ELSE [ret |-> "true", embedded |-> TRUE,
          q |-> kgQ \cup {query}, a |-> [kgA EXCEPT ![text] = confidence]]

\* saveDoubtToGraph: MERGE on queryKey, SET confidence; a store error is swallowed
saveDoubtToGraph(queryKey, confidence, storeOk) ==
    IF storeOk THEN [kgD EXCEPT ![queryKey] = confidence] ELSE kgD

(***************************************************************************)
(* POST /ask (src/routes/doubt.routes.js), one step per awaited call       *)
(***************************************************************************)
AskIdle ==
    [pc |-> "idle", query |-> Null, sel |-> FALSE, vis |-> FALSE, ctx |-> FALSE,
     fault |-> Null, degraded |-> FALSE, related |-> FALSE, kgHit |-> FALSE, kgConf |-> 0, cause |-> Null,
     invoked |-> FALSE, text |-> NoText, confidence |-> 0, conv |-> FALSE,
     videoCalled |-> FALSE, video |-> Null, saveCalled |-> FALSE, embedded |-> FALSE,
     stored |-> FALSE, doubt |-> 0, resp |-> Null, contentId |-> Null]

FreeId == CHOOSE d \in DoubtIds : doubts[d] = NoDoubt

NewDoubt(query, confidence, status, fromCache, video, contentId) ==
    [status |-> status, contentId |-> contentId, escalated |-> FALSE, query |-> query, confidence |-> confidence,
     answeredBy |-> Null, resolvedAt |-> Null, suggestedVideo |-> video,
     isFromCache |-> fromCache,
     source |-> IF fromCache THEN "KNOWLEDGE_GRAPH" ELSE "AI_API"]

\* the threshold compared with > instead of >=
MissStatusStrict(confidence) == IF confidence > ResolveThreshold THEN "resolved" ELSE "pending"

\* status the cache-miss branch gives the new doubt
MissStatus(confidence) == IF confidence >= ResolveThreshold THEN "resolved" ELSE "pending"

\* the route's catch handler: the response for a thrown message
AskErrorResponse(message) ==
    IF message \in {"API_LIMIT_REACHED", "INVALID_API_KEY", "NO_API_KEY"}
    THEN [code |-> 401, success |-> FALSE, errorCode |-> message]
    ELSE [code |-> 500, success |-> FALSE, errorCode |-> Null]

\* the request is read, the content is loaded and the grounding context is built;
\* content "none" is a request without a content document, the others have
\* extracted text; graph is the outcome of the related-concepts query
AskBegin(query, selectedText, visualContext, context, content, graph) ==
    /\ ask.pc = "idle"
    /\ \E d \in DoubtIds : doubts[d] = NoDoubt
    /\ LET fullTranscript == content # "none"
           contentType == IF content = "none" THEN "video" ELSE content
           enhanced == selectedText \/ context \/ visualContext \/ fullTranscript
           \* line 165 rewrites selectedText for a video region with a transcript
           selForAI == selectedText \/ (visualContext /\ contentType = "video" /\ fullTranscript)
       IN ask' = [AskIdle EXCEPT !.pc = "lookup", !.query = query, !.sel = selForAI,
                     !.vis = visualContext, !.ctx = enhanced,
                     !.contentId = IF content = "none" THEN Null ELSE ContentId,
                     !.related = visualContext /\ graph = "nodes",
                     !.fault = IF visualContext /\ graph = "fail" THEN "graph" ELSE Null,
                     !.degraded = visualContext /\ graph = "fail"]
    /\ UNCHANGED <<doubts, kgQ, kgA, kgD, esc, ans, guestVars, contentVars, pureVars, sideVars>>

\* searchKnowledgeGraph and the cache-hit branch
AskLookup(embedOk, storeOk, cands) ==
    /\ ask.pc = "lookup"
    /\ LET kgResult == searchKnowledgeGraph(embedOk, storeOk, cands)
           f == IF ~embedOk THEN "embedding" ELSE IF ~storeOk THEN "store" ELSE Null
       IN IF CacheHit(kgResult)
          THEN /\ doubts' = [doubts EXCEPT ![FreeId] =
                               NewDoubt(ask.query, kgResult.confidence, "resolved", TRUE, Null,
                                        ask.contentId)]
               /\ ask' = [ask EXCEPT !.pc = "done", !.kgHit = TRUE, !.fault = f,
                             !.kgConf = kgResult.confidence,
                             !.confidence = kgResult.confidence, !.doubt = FreeId,
                             !.resp = [code |-> 200, success |-> TRUE, isFromCache |-> TRUE,
                                       isSaved |-> TRUE, source |-> "KNOWLEDGE_GRAPH",
                                       confidence |-> kgResult.confidence]]
          ELSE /\ ask' = [ask EXCEPT !.pc = "generate", !.fault = f,
                             !.kgConf = kgResult.confidence,
                             !.degraded = @ \/ f # Null]
               /\ UNCHANGED doubts
    /\ UNCHANGED <<kgQ, kgA, kgD, esc, ans, guestVars, contentVars, pureVars, sideVars>>

\* askGroq, and the route's catch handler when it throws
AskGenerate(hasKey, provider, text) ==
    /\ ask.pc = "generate"
    /\ LET aiResult == askGroq(ask.query, ask.ctx, ask.vis, ask.sel, hasKey, provider, text)
       IN IF aiResult.thrown # Null
          THEN ask' = [ask EXCEPT !.pc = "done", !.cause = aiResult.cause, !.fault = Null,
                          !.invoked = aiResult.invoked,
                          !.resp = AskErrorResponse(aiResult.thrown)]
          ELSE ask' = [ask EXCEPT !.pc = "video", !.invoked = aiResult.invoked, !.fault = Null,
                          !.text = IF aiResult.invoked THEN text ELSE Canned,
                          !.confidence = aiResult.confidence,
                          !.conv = aiResult.isConversational]
    /\ UNCHANGED <<doubts, kgQ, kgA, kgD, esc, ans, guestVars, contentVars, pureVars, sideVars>>

\* a video lookup that gates the resolution: without a video the answer counts
\* as unconfident
AskVideoGates(outcome) ==
    /\ ask.pc = "video"
    /\ LET skip == ask.conv \/ (isGreeting(ask.query) /\ QueryLength(ask.query) < 30)
           found == ~skip /\ outcome = "found"
       IN ask' = [ask EXCEPT !.pc = "save", !.videoCalled = ~skip,
                     !.video = IF found THEN "video" ELSE Null,
                     !.confidence = IF found \/ skip THEN @ ELSE 0,
                     !.fault = IF ~skip /\ outcome = "fail" THEN "video" ELSE Null,
                     !.degraded = @ \/ (~skip /\ outcome = "fail")]
    /\ UNCHANGED <<doubts, kgQ, kgA, kgD, esc, ans, guestVars, contentVars, pureVars, sideVars>>

\* a video lookup whose failure reaches the route's catch handler
AskVideoThrows(outcome) ==
    /\ ask.pc = "video"
    /\ LET skip == ask.conv \/ (isGreeting(ask.query) /\ QueryLength(ask.query) < 30)
       IN IF ~skip /\ outcome = "fail"
          THEN ask' = [ask EXCEPT !.pc = "done", !.videoCalled = TRUE, !.fault = "video",
                          !.degraded = TRUE, !.resp = AskErrorResponse("video search failed")]
          ELSE ask' = [ask EXCEPT !.pc = "save", !.videoCalled = ~skip, !.fault = Null,
                          !.video = IF ~skip /\ outcome = "found" THEN "video" ELSE Null]
    /\ UNCHANGED <<doubts, kgQ, kgA, kgD, esc, ans, guestVars, contentVars, pureVars, sideVars>>

\* the video suggestion: skipped for a conversational exchange, null on failure
AskVideo(outcome) ==
    /\ ask.pc = "video"
    /\ LET skip == ask.conv \/ (isGreeting(ask.query) /\ QueryLength(ask.query) < 30)
       IN ask' = [ask EXCEPT !.pc = "save", !.videoCalled = ~skip,
                     !.video = IF ~skip /\ outcome = "found" THEN "video" ELSE Null,
                     !.fault = IF ~skip /\ outcome = "fail" THEN "video" ELSE Null,
                     !.degraded = @ \/ (~skip /\ outcome = "fail")]
    /\ UNCHANGED <<doubts, kgQ, kgA, kgD, esc, ans, guestVars, contentVars, pureVars, sideVars>>

\* the writeback, Doubt.create and the response of the cache-miss branch
AskSave(embedOk, storeOk) ==
    /\ ask.pc = "save"
    /\ LET call == ask.confidence >= RouteSaveThreshold
           r == saveToKnowledgeGraph(ask.query, ask.text, ask.confidence, embedOk, storeOk)
           isSaved == call
           wrote == call /\ r.ret = "true"
           f == IF call /\ r.embedded /\ r.ret # "true" THEN "writeback" ELSE Null
       IN /\ kgQ' = IF call THEN r.q ELSE kgQ
          /\ kgA' = IF call THEN r.a ELSE kgA
          /\ doubts' = [doubts EXCEPT ![FreeId] =
                          NewDoubt(ask.query, ask.confidence, MissStatus(ask.confidence),
                                   FALSE, ask.video, ask.contentId)]
          /\ ask' = [ask EXCEPT !.pc = "done", !.saveCalled = call,
                        !.embedded = call /\ r.embedded, !.stored = wrote,
                        !.fault = f, !.degraded = @ \/ f # Null, !.doubt = FreeId,
                        !.resp = [code |-> 200, success |-> TRUE, isFromCache |-> FALSE,
                                  isSaved |-> isSaved, source |-> "AI_API",
                                  confidence |-> ask.confidence]]
    /\ UNCHANGED <<kgD, esc, ans, guestVars, contentVars, pureVars, sideVars>>

\* the response has been sent
AskEnd ==
    /\ ask.pc = "done"
    /\ ask' = AskIdle
    /\ UNCHANGED <<doubts, kgQ, kgA, kgD, esc, ans, guestVars, contentVars, pureVars, sideVars>>

(***************************************************************************)
(* POST /:id/escalate and POST /:id/answer (src/routes/doubt.routes.js)    *)
(* Each handler loads the document and saves it; save() writes the paths   *)
(* whose value the handler changed in its copy.                            *)
(***************************************************************************)
ReqIdle == [pc |-> "idle", id |-> 0, doc |-> NoDoubt, by |-> Null, saveToGraph |-> FALSE]

\* save(): the stored document after the paths in which doc differs from
\* loaded (and the paths in always) have been written
SaveDoc(stored, loaded, doc, always) ==
    [p \in DOMAIN stored |->
        IF p \in always \/ doc[p] # loaded[p] THEN doc[p] ELSE stored[p]]

\* an escalation that puts the doubt back in the queue
EscalateStatusRequeue == "pending"
\* an answer that closes the doubt as resolved
AnswerStatusResolved == "resolved"
EscalateStatus == "escalated"
AnswerStatus == "answered"

\* Doubt.findById in the escalate handler
EscalateFind(d) ==
    /\ esc.pc = "idle"
    /\ doubts[d] # NoDoubt
    /\ esc' = [ReqIdle EXCEPT !.pc = "loaded", !.id = d, !.doc = doubts[d]]
    /\ UNCHANGED <<doubts, ask, kgQ, kgA, kgD, ans, guestVars, contentVars, pureVars, sideVars>>

\* an escalation that sets the status and forgets the flag
EscalateSaveNoFlag ==
    /\ esc.pc = "loaded"
    /\ doubts[esc.id] # NoDoubt
    /\ LET doc == [esc.doc EXCEPT !.status = EscalateStatus]
       IN doubts' = [doubts EXCEPT ![esc.id] = SaveDoc(@, esc.doc, doc, {})]
    /\ esc' = ReqIdle
    /\ UNCHANGED <<ask, kgQ, kgA, kgD, ans, guestVars, contentVars, pureVars, sideVars>>

\* escalated = true, status = 'escalated', save(); the notifications that
\* follow do not touch the doubt
EscalateSave ==
    /\ esc.pc = "loaded"
    /\ doubts[esc.id] # NoDoubt
    /\ LET doc == [esc.doc EXCEPT !.escalated = TRUE, !.status = EscalateStatus]
       IN doubts' = [doubts EXCEPT ![esc.id] = SaveDoc(@, esc.doc, doc, {})]
    /\ esc' = ReqIdle
    /\ UNCHANGED <<ask, kgQ, kgA, kgD, ans, guestVars, contentVars, pureVars, sideVars>>

\* Doubt.findById in the answer handler, reached by a faculty user
AnswerFind(d, by, saveToGraph) ==
    /\ ans.pc = "idle"
    /\ doubts[d] # NoDoubt
    /\ ans' = [ReqIdle EXCEPT !.pc = "loaded", !.id = d, !.doc = doubts[d],
                  !.by = by, !.saveToGraph = saveToGraph]
    /\ UNCHANGED <<doubts, ask, kgQ, kgA, kgD, esc, guestVars, contentVars, pureVars, sideVars>>

\* an answer that does not stamp the resolution time
AnswerDocNoStamp(doc, by) ==
    [doc EXCEPT !.answeredBy = by, !.status = AnswerStatus]

\* the fields the answer handler sets on its copy
AnswerDoc(doc, by) ==
    [doc EXCEPT !.answeredBy = by, !.status = AnswerStatus, !.resolvedAt = "date"]

\* facultyAnswer, answeredBy, status, resolvedAt = new Date(), save(), then
\* the optional saveDoubtToGraph with confidence 100
AnswerSave(storeOk) ==
    /\ ans.pc = "loaded"
    /\ doubts[ans.id] # NoDoubt
    /\ doubts' = [doubts EXCEPT ![ans.id] =
                     SaveDoc(@, ans.doc, AnswerDoc(ans.doc, ans.by), {"resolvedAt"})]
    /\ kgD' = IF ans.saveToGraph
              THEN saveDoubtToGraph(ans.doc.query, 100, storeOk)
              ELSE kgD
    /\ ans' = ReqIdle
    /\ UNCHANGED <<ask, kgQ, kgA, esc, guestVars, contentVars, pureVars, sideVars>>

\* delete-content: Doubt.deleteMany({ contentId: content._id })
DeleteContentDoubts ==
    /\ \E d \in DoubtIds : doubts[d] # NoDoubt /\ doubts[d].contentId = ContentId
    /\ doubts' = [d \in DoubtIds |->
                     IF doubts[d] # NoDoubt /\ doubts[d].contentId = ContentId
                     THEN NoDoubt ELSE doubts[d]]
    /\ UNCHANGED <<ask, kgQ, kgA, kgD, esc, ans, guestVars, contentVars, pureVars, sideVars>>

\* save() of a document deleted since it was loaded throws: the escalate
\* handler answers 500
EscalateSaveGone ==
    /\ esc.pc = "loaded"
    /\ doubts[esc.id] = NoDoubt
    /\ esc' = ReqIdle
    /\ UNCHANGED <<doubts, ask, kgQ, kgA, kgD, ans, guestVars, contentVars, pureVars, sideVars>>

\* save() of a document deleted since it was loaded throws: the answer
\* handler answers 500 before the writeback
AnswerSaveGone ==
    /\ ans.pc = "loaded"
    /\ doubts[ans.id] = NoDoubt
    /\ ans' = ReqIdle
    /\ UNCHANGED <<doubts, ask, kgQ, kgA, kgD, esc, guestVars, contentVars, pureVars, sideVars>>

(***************************************************************************)
(* Escalation fan-out: after the doubt is saved the escalate handler loads *)
(* the course with its instructors and, for each of them in turn, awaits   *)
(* Notification.create and hands the document to sendNotification.         *)
(***************************************************************************)
Instructors == {"f1", "f2"}
\* what Course.findById(...).populate('facultyIds') can yield: no course, or
\* a course with its list of instructors
NoCourse == [found |-> FALSE, facultyIds |-> <<>>]
CourseDocs == {NoCourse} \cup
    { [found |-> TRUE, facultyIds |-> l] :
        l \in {<<>>, <<"f1">>, <<"f2">>, <<"f1", "f2">>, <<"f2", "f1">>} }
NoneSent == [f \in Instructors |-> 0]
\* facultyIds is the list the loop runs over, todo what is left of it;
\* created and pushed count, per instructor, the notification documents made
\* and the pushes done by the request; code is the response status
FanIdle == [pc |-> "idle", facultyIds |-> <<>>, todo |-> <<>>,
            created |-> NoneSent, pushed |-> NoneSent, code |-> 0]

\* the server sets io before it listens (server.js:107)
ioReady == TRUE

\* a push that is dropped
sendNotificationDropped(pushed, userId) == pushed

\* sendNotification: emits 'notification:new' to the user once io is set
sendNotification(pushed, userId) ==
    IF ioReady THEN [pushed EXCEPT ![userId] = @ + 1] ELSE pushed

\* escalated = true, status = 'escalated', save(); the handler goes on to
\* the course lookup
EscalateSaveThen ==
    /\ esc.pc = "loaded"
    /\ doubts[esc.id] # NoDoubt
    /\ LET doc == [esc.doc EXCEPT !.escalated = TRUE, !.status = EscalateStatus]
       IN doubts' = [doubts EXCEPT ![esc.id] = SaveDoc(@, esc.doc, doc, {})]
    /\ esc' = [esc EXCEPT !.pc = "saved"]
    /\ fan' = [FanIdle EXCEPT !.pc = "course"]
    /\ UNCHANGED <<ask, kgQ, kgA, kgD, ans, guestVars, contentVars, pureVars, kgC, courseLive>>

\* Course.findById(doubt.courseId).populate('facultyIds'); a thrown error
\* reaches the catch handler, which answers 500
EscalateCourse(ok, course) ==
    /\ fan.pc = "course"
    /\ course.found => courseLive # "deleted"
    /\ IF ok
       THEN /\ fan' = [fan EXCEPT !.pc = "loop", !.facultyIds = course.facultyIds,
                                  !.todo = course.facultyIds]
            /\ esc' = esc
       ELSE /\ fan' = [fan EXCEPT !.pc = "done", !.code = 500]
            /\ esc' = ReqIdle
    /\ UNCHANGED <<doubts, ask, kgQ, kgA, kgD, ans, guestVars, contentVars, pureVars, kgC, courseLive>>

\* one turn of the loop: Notification.create for the next instructor, then
\* sendNotification; a failed create ends the request with 500
EscalateNotify(ok) ==
    /\ fan.pc = "loop"
    /\ fan.todo # <<>>
    /\ LET facultyId == Head(fan.todo)
       IN IF ok
          THEN /\ fan' = [fan EXCEPT !.todo = Tail(@),
                                     !.created[facultyId] = @ + 1,
                                     !.pushed = sendNotification(@, facultyId)]
               /\ esc' = esc
          ELSE /\ fan' = [fan EXCEPT !.pc = "done", !.code = 500]
               /\ esc' = ReqIdle
    /\ UNCHANGED <<doubts, ask, kgQ, kgA, kgD, ans, guestVars, contentVars, pureVars, kgC, courseLive>>

\* the loop is over: emitToCourse and res.json({ success: true })
EscalateRespond ==
    /\ fan.pc = "loop"
    /\ fan.todo = <<>>
    /\ fan' = [fan EXCEPT !.pc = "done", !.code = 200]
    /\ esc' = ReqIdle
    /\ UNCHANGED <<doubts, ask, kgQ, kgA, kgD, ans, guestVars, contentVars, pureVars, kgC, courseLive>>

\* delete-course, up to its last step: for each content of the course,
\* Doubt.deleteMany({ contentId: content._id }), then Content.deleteMany
DeleteCourseContents ==
    /\ courseLive = "live"
    /\ doubts' = [d \in DoubtIds |->
                     IF doubts[d] # NoDoubt /\ doubts[d].contentId = ContentId
                     THEN NoDoubt ELSE doubts[d]]
    /\ courseLive' = "deleting"
    /\ UNCHANGED <<ask, kgQ, kgA, kgD, esc, ans, guestVars, contentVars, pureVars, fan, kgC>>

\* delete-course, last step: Course.findByIdAndDelete
DeleteCourseEnd ==
    /\ courseLive = "deleting"
    /\ courseLive' = "deleted"
    /\ UNCHANGED <<doubtVars, guestVars, contentVars, pureVars, fan, kgC>>

(***************************************************************************)
(* Guest quota (src/middleware/guestRateLimit.middleware.js) in front of   *)
(* POST /whatsapp-guest, for one guest identifier.  One step per awaited   *)
(* Redis call; Tick is the passing of time, which runs the key's expiry.   *)
(***************************************************************************)
GuestLimit == 3
GuestSlots == {1, 2}

GuestIdle == [pc |-> "idle", count |-> None, kind |-> "none", ord |-> 0]
WinClosed == [open |-> FALSE, age |-> 0, n |-> 0, adm |-> 0]

\* the quota window as the caller reckons it: it opens with the first
\* decided request, lasts WindowTicks, numbers the requests decided in it and
\* counts the admitted ones
Decide(kind, s) ==
    /\ LET a == IF kind = "admitted" THEN 1 ELSE 0
       IN win' = IF win.open THEN [win EXCEPT !.n = @ + 1, !.adm = @ + a]
                 ELSE [open |-> TRUE, age |-> 0, n |-> 1, adm |-> a]
    /\ guest' = [guest EXCEPT ![s] =
                    [pc |-> IF kind = "admitted" THEN "route" ELSE "idle", count |-> None,
                     kind |-> kind, ord |-> IF win.open THEN win.n + 1 ELSE 1]]

\* a comparison that lets the request after the third through
LimitReachedStrict(count) == count # None /\ count > GuestLimit

\* count && parseInt(count) >= 3
LimitReached(count) == count # None /\ count >= GuestLimit

\* redis.get(key): over the limit the request is answered 429 here
GuestGet(s) ==
    /\ guest[s].pc = "idle"
    /\ nReq < MaxGuestRequests
    /\ nReq' = nReq + 1
    /\ IF LimitReached(redisVal)
       THEN Decide("rejected", s)
       ELSE /\ guest' = [guest EXCEPT ![s] = [GuestIdle EXCEPT !.pc = "got", !.count = redisVal]]
            /\ UNCHANGED win
    /\ UNCHANGED <<redisVal, redisTTL, doubtVars, contentVars, pureVars, sideVars>>

\* redis.incr(key); with a truthy count the request goes on to the route
GuestIncr(s) ==
    /\ guest[s].pc = "got"
    /\ redisVal' = IF redisVal = None THEN 1 ELSE redisVal + 1
    /\ IF guest[s].count = None
       THEN /\ guest' = [guest EXCEPT ![s].pc = "incred"]
            /\ UNCHANGED win
       ELSE Decide("admitted", s)
    /\ UNCHANGED <<redisTTL, nReq, doubtVars, contentVars, pureVars, sideVars>>

ExpirySeconds == 86400

\* redis.expire(key, 86400), then next()
GuestExpire(s) ==
    /\ guest[s].pc = "incred"
    /\ redisTTL' = IF redisVal # None THEN WindowTicks ELSE redisTTL
    /\ Decide("admitted", s)
    /\ UNCHANGED <<redisVal, nReq, doubtVars, contentVars, pureVars, sideVars>>

\* getRedisClient() or a Redis call throws: the catch handler calls next()
GuestFail(s) ==
    /\ \/ guest[s].pc \in {"got", "incred"}
       \/ guest[s].pc = "idle" /\ nReq < MaxGuestRequests
    /\ nReq' = IF guest[s].pc = "idle" THEN nReq + 1 ELSE nReq
    /\ Decide("admitted", s)
    /\ UNCHANGED <<redisVal, redisTTL, doubtVars, contentVars, pureVars, sideVars>>

\* the route handler answers the admitted request
GuestRoute(s) ==
    /\ guest[s].pc = "route"
    /\ guest' = [guest EXCEPT ![s].pc = "idle"]
    /\ UNCHANGED <<redisVal, redisTTL, win, nReq, doubtVars, contentVars, pureVars, sideVars>>

\* time passes: a key with an expiry loses a tick and is deleted at zero
Tick ==
    /\ \/ redisTTL # None
       \/ win.open
    /\ IF redisTTL = None THEN UNCHANGED <<redisVal, redisTTL>>
       ELSE IF redisTTL = 1 THEN redisVal' = None /\ redisTTL' = None
       ELSE redisTTL' = redisTTL - 1 /\ UNCHANGED redisVal
    /\ win' = IF ~win.open THEN win
              ELSE IF win.age + 1 >= WindowTicks THEN WinClosed
              ELSE [win EXCEPT !.age = @ + 1]
    /\ UNCHANGED <<guest, nReq, doubtVars, contentVars, pureVars, sideVars>>

NoneInFlight == \A s \in GuestSlots : guest[s].pc = "idle"

(***************************************************************************)
(* Content processing: processContent, reprocess, cancel-processing        *)
(***************************************************************************)
Jobs == {1, 2}
ContentTypes == {"pdf", "code"}
JobIdle == [pc |-> "idle", status |-> Null, aborted |-> FALSE]
CallIdle == [pc |-> "idle", status |-> Null]

\* save() of one path: written when the value differs from the loaded one
SavePath(stored, loaded, value) == IF value # loaded THEN value ELSE stored

Finished(j) == job[j].pc \in {"idle", "done"}
FreeJob == CHOOSE j \in Jobs : Finished(j) /\ \A k \in Jobs : Finished(k) => j <= k

\* upload: the content is created pending and processContent is started
Upload(type) ==
    /\ processingStatus = "none"
    /\ processingStatus' = "pending"
    /\ itemType' = type
    /\ job' = [job EXCEPT ![1].pc = "find"]
    /\ UNCHANGED <<activeControllers, cancel, rep, cancelled, doubtVars, guestVars, pureVars, sideVars>>

\* processContent: Content.findById
JobFind(j) ==
    /\ job[j].pc = "find"
    /\ job' = [job EXCEPT ![j].pc = "mark", ![j].status = processingStatus]
    /\ UNCHANGED <<processingStatus, itemType, activeControllers, cancel, rep, cancelled,
                   doubtVars, guestVars, pureVars, sideVars>>

\* processContent: processingStatus = 'processing'; save()
JobMark(j) ==
    /\ job[j].pc = "mark"
    /\ processingStatus' = SavePath(processingStatus, job[j].status, "processing")
    /\ job' = [job EXCEPT ![j].pc = "marked", ![j].status = "processing"]
    /\ UNCHANGED <<itemType, activeControllers, cancel, rep, cancelled, doubtVars, guestVars, pureVars, sideVars>>

\* processContent goes on to the extraction; extractWithML registers a new
\* controller under the content id and posts to the ML service
JobExtractStart(j) ==
    /\ job[j].pc = "marked"
    /\ IF itemType = "pdf"
       THEN /\ activeControllers' = j
            /\ job' = [job EXCEPT ![j].pc = "extract", ![j].aborted = FALSE]
       ELSE /\ job' = [job EXCEPT ![j].pc = "code"]
            /\ UNCHANGED activeControllers
    /\ UNCHANGED <<processingStatus, itemType, cancel, rep, cancelled, doubtVars, guestVars, pureVars, sideVars>>

\* the ML call ends: it is rejected when its controller was aborted; the
\* finally block deletes the entry of the content id
JobExtractEnd(j, outcome) ==
    /\ job[j].pc = "extract"
    /\ job[j].aborted => outcome = "cancelled"
    /\ ~job[j].aborted => outcome # "cancelled"
    /\ activeControllers' = 0
    /\ job' = [job EXCEPT ![j].pc = IF outcome = "ok" THEN "check1" ELSE "catch"]
    /\ UNCHANGED <<processingStatus, itemType, cancel, rep, cancelled, doubtVars, guestVars, pureVars, sideVars>>

\* extractCodeData for code and document content
JobExtractCode(j, ok) ==
    /\ job[j].pc = "code"
    /\ job' = [job EXCEPT ![j].pc = IF ok THEN "progress" ELSE "catch"]
    /\ UNCHANGED <<processingStatus, itemType, activeControllers, cancel, rep, cancelled,
                   doubtVars, guestVars, pureVars, sideVars>>

\* the check after the ML extraction: a failed status ends the run
JobCheck1(j) ==
    /\ job[j].pc = "check1"
    /\ job' = [job EXCEPT ![j].pc = IF processingStatus = "failed" THEN "done" ELSE "progress"]
    /\ UNCHANGED <<processingStatus, itemType, activeControllers, cancel, rep, cancelled,
                   doubtVars, guestVars, pureVars, sideVars>>

\* the saves of progress 40 and 60: processingStatus is not a modified path
JobProgress(j) ==
    /\ job[j].pc = "progress"
    /\ processingStatus' = SavePath(processingStatus, job[j].status, job[j].status)
    /\ job' = [job EXCEPT ![j].pc = "check2"]
    /\ UNCHANGED <<itemType, activeControllers, cancel, rep, cancelled, doubtVars, guestVars, pureVars, sideVars>>

\* the check before the graph creation, inside the graph try block: a failed
\* status ends the run, a failing query is caught and the run goes on
JobCheck2(j, ok) ==
    /\ job[j].pc = "check2"
    /\ job' = [job EXCEPT ![j].pc =
                  IF ok /\ processingStatus = "failed" THEN "done" ELSE "complete"]
    /\ UNCHANGED <<processingStatus, itemType, activeControllers, cancel, rep, cancelled,
                   doubtVars, guestVars, pureVars, sideVars>>

\* processingStatus = 'completed'; save()
JobComplete(j) ==
    /\ job[j].pc = "complete"
    /\ processingStatus' = SavePath(processingStatus, job[j].status, "completed")
    /\ job' = [job EXCEPT ![j].pc = "done", ![j].status = "completed"]
    /\ UNCHANGED <<itemType, activeControllers, cancel, rep, cancelled, doubtVars, guestVars, pureVars, sideVars>>

\* the catch handler of processContent: Content.findById
JobCatchFind(j) ==
    /\ job[j].pc = "catch"
    /\ job' = [job EXCEPT ![j].pc = "catchsave", ![j].status = processingStatus]
    /\ UNCHANGED <<processingStatus, itemType, activeControllers, cancel, rep, cancelled,
                   doubtVars, guestVars, pureVars, sideVars>>

\* the catch handler of processContent: processingStatus = 'failed'; save()
JobCatchSave(j) ==
    /\ job[j].pc = "catchsave"
    /\ processingStatus' = SavePath(processingStatus, job[j].status, "failed")
    /\ job' = [job EXCEPT ![j].pc = "done", ![j].status = "failed"]
    /\ UNCHANGED <<itemType, activeControllers, cancel, rep, cancelled, doubtVars, guestVars, pureVars, sideVars>>

\* reprocess: Content.findById
ReprocessFind ==
    /\ rep.pc = "idle"
    /\ processingStatus # "none"
    /\ \E j \in Jobs : Finished(j)
    /\ rep' = [pc |-> "found", status |-> processingStatus]
    /\ UNCHANGED <<processingStatus, itemType, job, activeControllers, cancel, cancelled,
                   doubtVars, guestVars, pureVars, sideVars>>

\* reprocess: refused while the loaded status is 'processing'; otherwise the
\* status is saved as 'pending' and processContent is started
ReprocessSave ==
    /\ rep.pc = "found"
    /\ rep' = CallIdle
    /\ IF rep.status = "processing"
       THEN UNCHANGED <<processingStatus, job, cancelled>>
       ELSE /\ processingStatus' = SavePath(processingStatus, rep.status, "pending")
            /\ job' = [job EXCEPT ![FreeJob] = [JobIdle EXCEPT !.pc = "find"]]
            /\ cancelled' = FALSE
    /\ UNCHANGED <<itemType, activeControllers, cancel, doubtVars, guestVars, pureVars, sideVars>>

\* prepare of a URL whose content exists: a failed item is handed to
\* processContent again, its status is left as it is; the model has a slot
\* for the run when one is free and no reprocess in flight is to take it
Prepare ==
    /\ processingStatus = "failed"
    /\ rep.pc = "idle"
    /\ \E j \in Jobs : Finished(j)
    /\ job' = [job EXCEPT ![FreeJob] = [JobIdle EXCEPT !.pc = "find"]]
    /\ cancelled' = FALSE
    /\ UNCHANGED <<processingStatus, itemType, activeControllers, cancel, rep,
                   doubtVars, guestVars, pureVars, sideVars>>

\* cancel-processing: Content.findById
CancelFind ==
    /\ cancel.pc = "idle"
    /\ processingStatus # "none"
    /\ cancel' = [pc |-> "found", status |-> processingStatus]
    /\ UNCHANGED <<processingStatus, itemType, job, activeControllers, rep, cancelled,
                   doubtVars, guestVars, pureVars, sideVars>>

Cancellable(status) == status \in {"processing", "pending"}

\* cancel-processing: accepted for a processing or pending item, whose
\* status is saved as 'failed'
CancelSave ==
    /\ cancel.pc = "found"
    /\ IF Cancellable(cancel.status)
       THEN /\ processingStatus' = SavePath(processingStatus, cancel.status, "failed")
            /\ cancelled' = TRUE
            /\ cancel' = [cancel EXCEPT !.pc = "saved"]
       ELSE /\ cancel' = CallIdle
            /\ UNCHANGED <<processingStatus, cancelled>>
    /\ UNCHANGED <<itemType, job, activeControllers, rep, doubtVars, guestVars, pureVars, sideVars>>

\* cancelMLRequest: abort the controller registered under the content id
cancelMLRequest ==
    /\ cancel.pc = "saved"
    /\ cancel' = CallIdle
    /\ job' = IF activeControllers # 0
              THEN [job EXCEPT ![activeControllers].aborted = TRUE]
              ELSE job
    /\ UNCHANGED <<processingStatus, itemType, activeControllers, rep, cancelled,
                   doubtVars, guestVars, pureVars, sideVars>>

(***************************************************************************)
(* Writebacks to the semantic memory with the course of the request.  Each *)
(* is one Cypher statement: MERGE of the Question on its text, MERGE of    *)
(* the Answer on its text with SET a.confidence, and a RELATES_TO link to  *)
(* the Course node of the request when that node exists.                   *)
(***************************************************************************)
Courses == {"A", "B"}
WritebackQueries == {"what is a stack", "explain this"}
WritebackTexts == { [len |-> 450, fmt |-> 50], [len |-> 150, fmt |-> 20] }
\* confidences the scorer gives at and around the thresholds
WritebackConfidences == {76, 82, 90}

\* MATCH (c:Course {id: $courseId}) MERGE (q)-[:RELATES_TO]->(c)
relatesTo(query, courseId, courseNode) ==
    IF courseNode THEN [kgC EXCEPT ![query] = @ \cup {courseId}] ELSE kgC

\* the writeback of the ask route for a request of the given course
Writeback(query, text, confidence, courseId, embedOk, storeOk, courseNode) ==
    /\ confidence >= RouteSaveThreshold
    /\ LET r == saveToKnowledgeGraph(query, text, confidence, embedOk, storeOk)
       IN /\ kgQ' = r.q
          /\ kgA' = r.a
          /\ kgC' = IF r.ret = "true" THEN relatesTo(query, courseId, courseNode) ELSE kgC
    /\ UNCHANGED <<doubts, ask, kgD, esc, ans, guestVars, contentVars, pureVars, fan, courseLive>>

\* the writeback of the answer route: the human answer, confidence 100
MentorWriteback(queryKey, storeOk) ==
    /\ kgD' = saveDoubtToGraph(queryKey, 100, storeOk)
    /\ UNCHANGED <<doubts, ask, kgQ, kgA, esc, ans, guestVars, contentVars, pureVars, sideVars>>

(***************************************************************************)
(* Grounding builder of the ask route (src/routes/doubt.routes.js 77-171). *)
(* A text is a sequence of tokens: "VS", "IF" and "VF" are the UI markers  *)
(* "(Visual Scan - AI Analysis)", "(Image Focus - AI Vision)" and          *)
(* "(Video Focus - Analyzing Frame [at m:ss])", "pw" is any other text in  *)
(* parentheses, "w" is other text and "sp" is white space.  The extracted  *)
(* text of the content is its number of words, 0 when there is none; a     *)
(* slice of it is the set of the indexes of its words.                     *)
(***************************************************************************)
uiPlaceholders == {"VS", "IF", "VF"}
Parenthesised == uiPlaceholders \cup {"pw"}

RECURSIVE trimStart(_)
trimStart(t) == IF t # <<>> /\ Head(t) = "sp" THEN trimStart(Tail(t)) ELSE t
RECURSIVE trimEnd(_)
trimEnd(t) ==
    IF t # <<>> /\ t[Len(t)] = "sp" THEN trimEnd(SubSeq(t, 1, Len(t) - 1)) ELSE t
trim(t) == trimEnd(trimStart(t))

\* selectedText.trim() with every uiPlaceholders pattern replaced by ''
cleanSelectedText(selectedText) ==
    LET Kept(x) == x \notin uiPlaceholders
    IN SelectSeq(trim(selectedText), Kept)

\* /^\(.*\)$/ on the trimmed text
isPlaceholder(t) ==
    LET s == trim(t)
    IN s # <<>> /\ Head(s) \in Parenthesised /\ s[Len(s)] \in Parenthesised

\* words.slice(startIdx, endIdx) of an array of n words
slice(n, startIdx, endIdx) ==
    LET k == IF startIdx < 0 THEN Max(n + startIdx, 0) ELSE Min(startIdx, n)
        final == IF endIdx < 0 THEN Max(n + endIdx, 0) ELSE Min(endIdx, n)
    IN { i \in 0..(n - 1) : k <= i /\ i < final }

windowSeconds == 30
\* wordsPerSec = 2.5, as a fraction
wordsPerSecNum == 5
wordsPerSecDen == 2

\* a window that is not bounded below
transcriptWindowUnbounded(totalSeconds, n) ==
    LET startIdx == ((totalSeconds - windowSeconds) * wordsPerSecNum) \div wordsPerSecDen
        endIdx == ((totalSeconds + windowSeconds) * wordsPerSecNum) \div wordsPerSecDen
    IN slice(n, startIdx, endIdx)

\* the transcript segment of a video region: the words within 30 seconds of
\* the timestamp at 2.5 words a second
transcriptWindow(totalSeconds, n) ==
    LET startIdx == Max(0, ((totalSeconds - windowSeconds) * wordsPerSecNum) \div wordsPerSecDen)
        endIdx == ((totalSeconds + windowSeconds) * wordsPerSecNum) \div wordsPerSecDen
    IN slice(n, startIdx, endIdx)

\* values of groundingContext.transcriptSegment: null, a slice of the
\* transcript, a text made from the selection, the leading characters of
\* the extracted text
NoSegment == [kind |-> "null", idx |-> {}, toks |-> <<>>]
Window(idx) == [kind |-> "window", idx |-> idx, toks |-> <<>>]
FromSelection(toks) == [kind |-> "selection", idx |-> {}, toks |-> toks]
Leading == [kind |-> "leading", idx |-> {}, toks |-> <<>>]

\* a segment that is neither null, undefined nor ''
Truthy(seg) ==
    CASE seg.kind = "null" -> FALSE
      [] seg.kind = "window" -> seg.idx # {}
      [] seg.kind = "selection" -> seg.toks # <<>>
      [] seg.kind = "leading" -> TRUE

\* the segment the region branch extracts (lines 97-133); a request names
\* its selection by toks and by the time its "[at m:ss]" marker carries
extractSegment(contentType, n, sel) ==
    IF contentType = "video"
    THEN IF sel.mins # None /\ n > 0
         THEN Window(transcriptWindow(sel.mins * 60 + sel.secs, n))
         ELSE NoSegment
    ELSE IF cleanSelectedText(sel.toks) # <<>>
         THEN FromSelection(cleanSelectedText(sel.toks))
         ELSE FromSelection(sel.toks)

\* a builder that keeps whatever the region branch extracted
fallbackSegmentNone(seg, n) == seg

\* the fallback to the leading characters of the extracted text (156-162)
fallbackSegment(seg, n) ==
    IF (~Truthy(seg) \/ (seg.kind = "selection" /\ isPlaceholder(seg.toks))) /\ n > 0
    THEN Leading ELSE seg

\* the grounding of one request: the segment the region branch extracts,
\* the segment after the fallback, and the parts of enhancedContext: the
\* text of the request it starts from and whether the [Context] sample is
\* appended; quotes says that the request's text holds the beginning of the
\* extracted text
buildGrounding(contentType, n, sel, context, visualContext, quotes) ==
    LET base == IF sel.toks # <<>> THEN "selectedText"
                ELSE IF context THEN "context" ELSE "empty"
        extracted == IF visualContext THEN extractSegment(contentType, n, sel)
                     ELSE NoSegment
    IN [isRegionSelect |-> visualContext,
        extracted |-> extracted,
        transcriptSegment |-> IF visualContext THEN fallbackSegment(extracted, n)
                              ELSE NoSegment,
        base |-> base,
        sample |-> ~visualContext /\ n > 0 /\ ~(quotes /\ base # "empty")]

(***************************************************************************)
(* Calls of the pure functions on inputs drawn from bounded sets           *)
(***************************************************************************)
NoCall == [pc |-> "none"]

\* similarities (percent) around the floor and the rows a vector query returns
LookupSims == {75, 84, 85, 86, 90}
MaxRows == 2
LookupRows == { r \in SUBSET [sim : LookupSims, same : BOOLEAN] : Cardinality(r) <= MaxRows }

\* searchKnowledgeGraph called on the rows, and the route's test of its result
LookupCall(embedOk, storeOk, rows) ==
    /\ lookup.pc = "none"
    /\ LET kgResult == searchKnowledgeGraph(embedOk, storeOk, rows)
       IN lookup' = [pc |-> "done", ok |-> embedOk /\ storeOk, rows |-> rows,
                     result |-> kgResult, hit |-> CacheHit(kgResult)]
    /\ UNCHANGED <<calc, ground, doubtVars, guestVars, contentVars, sideVars>>

\* inputs of calculateConfidence: base confidences and formatting scores in
\* and out of range, response lengths around the steps
CalcParams ==
    [aiConfidence : {-10, 0, 35, 85, 100, 150},
     hasContext : BOOLEAN, hasSelectedText : BOOLEAN, hasVisualContext : BOOLEAN,
     responseLength : {0, 99, 100, 199, 200, 399, 400},
     hasFormatting : {-50, 0, 45, 90, 100, 500},
     isVerifiedSource : BOOLEAN]

\* calculateConfidence called on p: the final score and the context component
CalcCall(p) ==
    /\ calc.pc = "none"
    /\ calc' = [pc |-> "done", p |-> p, finalScore |-> calculateConfidence(p),
                contextQuality |-> contextScore(p.hasSelectedText, p.hasContext,
                                                p.hasVisualContext)]
    /\ UNCHANGED <<lookup, ground, doubtVars, guestVars, contentVars, sideVars>>

\* the formatting features checkFormattingQuality finds in a text: a
\* sub-heading is also a heading and a code fence also inline code, as the
\* regular expressions match
FormatDetails ==
    { d \in [hasMainTitle : BOOLEAN, subtitleCount : 0..2, hasBulletPoints : BOOLEAN,
             hasNumberedLists : BOOLEAN, hasBoldText : BOOLEAN, hasCodeBlocks : BOOLEAN,
             hasInlineCode : BOOLEAN, hasFormulas : BOOLEAN] :
        /\ d.subtitleCount > 0 => d.hasMainTitle
        /\ d.hasCodeBlocks => d.hasInlineCode }

\* a sub-score that reaches 100 when every feature is present
checkFormattingQualityFull(d) ==
    (IF d.hasMainTitle THEN 20 ELSE 0) + (IF d.subtitleCount >= 1 THEN 20 ELSE 0)
    + (IF d.hasBulletPoints THEN 10 ELSE 0) + (IF d.hasNumberedLists THEN 10 ELSE 0)
    + (IF d.hasBoldText THEN 10 ELSE 0) + (IF d.hasCodeBlocks THEN 5 ELSE 0)
    + (IF d.hasInlineCode THEN 5 ELSE 0) + (IF d.hasFormulas THEN 5 ELSE 0)
    + (IF d.hasMainTitle THEN 5 ELSE 0) + (IF d.subtitleCount >= 2 THEN 10 ELSE 0)

\* checkFormattingQuality: the score of a non-empty text with features d;
\* hasSubtitles is subtitleCount >= 1 and titleCount >= 1 is hasMainTitle
checkFormattingQuality(d) ==
    (IF d.hasMainTitle THEN 15 ELSE 0) + (IF d.subtitleCount >= 1 THEN 15 ELSE 0)
    + (IF d.hasBulletPoints THEN 10 ELSE 0) + (IF d.hasNumberedLists THEN 10 ELSE 0)
    + (IF d.hasBoldText THEN 10 ELSE 0) + (IF d.hasCodeBlocks THEN 5 ELSE 0)
    + (IF d.hasInlineCode THEN 5 ELSE 0) + (IF d.hasFormulas THEN 5 ELSE 0)
    + (IF d.hasMainTitle THEN 5 ELSE 0) + (IF d.subtitleCount >= 2 THEN 10 ELSE 0)

\* lengths of the model's response around the steps of the response score
ScoreLengths == {1, 99, 100, 199, 200, 399, 400, 4000}

\* the model has answered a substantive question: askGroq scores the text,
\* the route derives the status of the doubt and calls the writeback when
\* the confidence passes its gate
ScoreCall(d, responseLength, hasContext, hasSelectedText, hasVisualContext) ==
    /\ calc.pc = "none"
    /\ LET confidence == calculateConfidence(
                             [aiConfidence |-> 85, hasContext |-> hasContext,
                              hasSelectedText |-> hasSelectedText,
                              hasVisualContext |-> hasVisualContext,
                              responseLength |-> responseLength,
                              hasFormatting |-> checkFormattingQuality(d),
                              isVerifiedSource |-> FALSE])
           saved == IF confidence >= RouteSaveThreshold
                    THEN saveToKnowledgeGraph("what is a stack", [len |-> 450, fmt |-> 50],
                                              confidence, TRUE, TRUE).ret
                    ELSE "skipped"
       IN calc' = [pc |-> "scored", details |-> d, responseLength |-> responseLength,
                   hasContext |-> hasContext, hasSelectedText |-> hasSelectedText,
                   hasVisualContext |-> hasVisualContext, confidence |-> confidence,
                   status |-> MissStatus(confidence), saved |-> saved]
    /\ UNCHANGED <<lookup, ground, doubtVars, guestVars, contentVars, sideVars>>

\* requests of the grounding builder: selections with and without markers,
\* video markers with times around the ends of the transcripts
GroundTexts == { <<>>, <<"w">>, <<"VS">>, <<"IF">>, <<"pw">>, <<"sp", "VS", "sp">>,
                 <<"VS", "sp", "IF">>, <<"VS", "sp", "w">> }
GroundMins == {0, 1, 2, 3}
GroundSecs == {0, 15, 29, 59}
GroundSelections ==
    { [toks |-> t, mins |-> None, secs |-> None] : t \in GroundTexts } \cup
    { [toks |-> <<"VF">>, mins |-> m, secs |-> x] : m \in GroundMins, x \in GroundSecs }
GroundWords == {0, 100, 300, 400}

\* the builder run on one request
GroundCall(contentType, n, sel, context, visualContext, quotes) ==
    /\ ground.pc = "none"
    /\ ground' = [pc |-> "done", contentType |-> contentType, n |-> n, sel |-> sel,
                  context |-> context, visualContext |-> visualContext,
                  g |-> buildGrounding(contentType, n, sel, context, visualContext, quotes)]
    /\ UNCHANGED <<lookup, calc, doubtVars, guestVars, contentVars, sideVars>>

(***************************************************************************)
(* Specifications                                                          *)
(***************************************************************************)
\* the memory the store holds when the server starts: empty, or one
\* question saved by an earlier run
SeedText == [len |-> 450, fmt |-> 50]
InitMemory ==
    \/ kgQ = {} /\ kgA = [t \in AnswerTexts |-> None]
    \/ kgQ = {"what is a stack"}
       /\ kgA = [t \in AnswerTexts |-> IF t = SeedText THEN 85 ELSE None]

Init ==
    /\ doubts = [d \in DoubtIds |-> NoDoubt]
    /\ ask = AskIdle
    /\ InitMemory
    /\ kgD = [q \in Queries |-> None]
    /\ esc = ReqIdle
    /\ ans = ReqIdle
    /\ redisVal = None
    /\ redisTTL = None
    /\ guest = [s \in GuestSlots |-> GuestIdle]
    /\ win = WinClosed
    /\ nReq = 0
    /\ processingStatus = "none"
    /\ itemType = "none"
    /\ job = [j \in Jobs |-> JobIdle]
    /\ activeControllers = 0
    /\ cancel = CallIdle
    /\ rep = CallIdle
    /\ cancelled = FALSE
    /\ lookup = NoCall
    /\ calc = NoCall
    /\ ground = NoCall
    /\ fan = FanIdle
    /\ kgC = [q \in Queries |-> {}]
    /\ courseLive = "live"

\* the rows the vector query can return: one per stored question
Candidates == { f \in [kgQ -> [sim : Sims, same : BOOLEAN]] : TRUE }
Rows(f) == { f[q] : q \in kgQ }

NextDoubt ==
    \/ \E q \in Queries, st \in BOOLEAN, vc \in BOOLEAN, c \in BOOLEAN,
          ct \in {"none", "video", "pdf"}, g \in {"nodes", "fail"} :
          AskBegin(q, st, vc, c, ct, g)
    \/ \E e \in BOOLEAN, n \in BOOLEAN, f \in Candidates : AskLookup(e, n, Rows(f))
    \/ \E k \in BOOLEAN, p \in ProviderOutcomes, t \in Texts : AskGenerate(k, p, t)
    \/ \E o \in {"found", "empty", "fail"} : AskVideo(o)
    \/ \E e \in BOOLEAN, n \in BOOLEAN : AskSave(e, n)
    \/ AskEnd
    \/ \E d \in DoubtIds : EscalateFind(d)
    \/ EscalateSave
    \/ \E d \in DoubtIds, f \in Faculty, g \in BOOLEAN : AnswerFind(d, f, g)
    \/ \E n \in BOOLEAN : AnswerSave(n)

Next == NextDoubt

Spec == Init /\ [][Next]_vars

\* guest requests served one at a time by a reachable store
NextGuestSeq ==
    \/ \E s \in GuestSlots : NoneInFlight /\ GuestGet(s)
    \/ \E s \in GuestSlots : GuestIncr(s)
    \/ \E s \in GuestSlots : GuestExpire(s)
    \/ \E s \in GuestSlots : GuestRoute(s)
    \/ NoneInFlight /\ Tick

SpecGuestSeq == Init /\ [][NextGuestSeq]_vars

\* guest requests of one identifier in flight together, the store reachable
NextGuestConc ==
    \/ \E s \in GuestSlots : GuestGet(s)
    \/ \E s \in GuestSlots : GuestIncr(s)
    \/ \E s \in GuestSlots : GuestExpire(s)
    \/ \E s \in GuestSlots : GuestRoute(s)
    \/ NoneInFlight /\ Tick

SpecGuestConc == Init /\ [][NextGuestConc]_vars

\* guest requests served one at a time while the key may expire at any
\* moment and a call of the store may fail
NextGuestFaulty ==
    \/ \E s \in GuestSlots : NoneInFlight /\ GuestGet(s)
    \/ \E s \in GuestSlots : GuestIncr(s)
    \/ \E s \in GuestSlots : GuestExpire(s)
    \/ \E s \in GuestSlots : NoneInFlight /\ GuestFail(s)
    \/ \E s \in GuestSlots : guest[s].pc # "idle" /\ GuestFail(s)
    \/ \E s \in GuestSlots : GuestRoute(s)
    \/ Tick

SpecGuestFaulty == Init /\ [][NextGuestFaulty]_vars

NextContent ==
    \/ \E t \in ContentTypes : Upload(t)
    \/ \E j \in Jobs : JobFind(j)
    \/ \E j \in Jobs : JobMark(j)
    \/ \E j \in Jobs : JobExtractStart(j)
    \/ \E j \in Jobs, o \in {"ok", "error", "cancelled"} : JobExtractEnd(j, o)
    \/ \E j \in Jobs, ok \in BOOLEAN : JobExtractCode(j, ok)
    \/ \E j \in Jobs : JobCheck1(j)
    \/ \E j \in Jobs : JobProgress(j)
    \/ \E j \in Jobs, ok \in BOOLEAN : JobCheck2(j, ok)
    \/ \E j \in Jobs : JobComplete(j)
    \/ \E j \in Jobs : JobCatchFind(j)
    \/ \E j \in Jobs : JobCatchSave(j)
    \/ ReprocessFind
    \/ ReprocessSave
    \/ Prepare
    \/ CancelFind
    \/ CancelSave
    \/ cancelMLRequest

SpecContent == Init /\ [][NextContent]_vars

\* one question asked again and again on a content item whose doubts are
\* removed with the content, the generator and the video search answering
RelearnQueries == {"what is a stack"}

NextRelearn ==
    \/ \E q \in RelearnQueries, ct \in {"none", "pdf"} :
          AskBegin(q, FALSE, FALSE, FALSE, ct, "nodes")
    \/ \E e \in BOOLEAN, n \in BOOLEAN, f \in Candidates : AskLookup(e, n, Rows(f))
    \/ AskGenerate(TRUE, "ok", SeedText)
    \/ AskVideo("empty")
    \/ \E n \in BOOLEAN : AskSave(TRUE, n)
    \/ AskEnd
    \/ \E d \in DoubtIds : EscalateFind(d)
    \/ EscalateSave
    \/ EscalateSaveGone
    \/ \E d \in DoubtIds, f \in Faculty, g \in BOOLEAN : AnswerFind(d, f, g)
    \/ \E n \in BOOLEAN : AnswerSave(n)
    \/ AnswerSaveGone
    \/ DeleteContentDoubts

SpecRelearn == Init /\ [][NextRelearn]_vars

\* escalations of doubts that exist when the server starts
StartDoubts ==
    { NewDoubt(q, c, MissStatus(c), FALSE, Null, ct) :
        q \in {"what is a stack"}, c \in {60, 90}, ct \in {Null, ContentId} }

InitEscalate ==
    /\ doubts \in [DoubtIds -> StartDoubts]
    /\ ask = AskIdle
    /\ InitMemory
    /\ kgD = [q \in Queries |-> None]
    /\ esc = ReqIdle
    /\ ans = ReqIdle
    /\ redisVal = None
    /\ redisTTL = None
    /\ guest = [s \in GuestSlots |-> GuestIdle]
    /\ win = WinClosed
    /\ nReq = 0
    /\ processingStatus = "none"
    /\ itemType = "none"
    /\ job = [j \in Jobs |-> JobIdle]
    /\ activeControllers = 0
    /\ cancel = CallIdle
    /\ rep = CallIdle
    /\ cancelled = FALSE
    /\ lookup = NoCall
    /\ calc = NoCall
    /\ ground = NoCall
    /\ fan = FanIdle
    /\ kgC = [q \in Queries |-> {}]
    /\ courseLive = "live"

NextEscalate ==
    \/ \E d \in DoubtIds : EscalateFind(d)
    \/ EscalateSaveThen
    \/ EscalateSaveGone
    \/ \E ok \in BOOLEAN, c \in CourseDocs : EscalateCourse(ok, c)
    \/ \E ok \in BOOLEAN : EscalateNotify(ok)
    \/ EscalateRespond
    \/ DeleteContentDoubts
    \/ DeleteCourseContents
    \/ DeleteCourseEnd

SpecEscalate == InitEscalate /\ [][NextEscalate]_vars

NextGround ==
    \E ct \in {"video", "pdf"}, n \in GroundWords, sel \in GroundSelections,
       c \in BOOLEAN, v \in BOOLEAN, q \in BOOLEAN : GroundCall(ct, n, sel, c, v, q)

SpecGround == Init /\ [][NextGround]_vars

NextWriteback ==
    \/ \E q \in WritebackQueries, t \in WritebackTexts, c \in WritebackConfidences,
          k \in Courses, e \in BOOLEAN, n \in BOOLEAN, x \in BOOLEAN :
          Writeback(q, t, c, k, e, n, x)
    \/ \E q \in WritebackQueries, n \in BOOLEAN : MentorWriteback(q, n)

SpecWriteback == Init /\ [][NextWriteback]_vars

NextScore ==
    \E d \in FormatDetails, l \in ScoreLengths, c \in BOOLEAN, st \in BOOLEAN, v \in BOOLEAN :
        ScoreCall(d, l, c, st, v)

SpecScore == Init /\ [][NextScore]_vars

NextLookup ==
    \E e \in BOOLEAN, n \in BOOLEAN, r \in LookupRows : LookupCall(e, n, r)

SpecLookup == Init /\ [][NextLookup]_vars

NextCalc == \E p \in CalcParams : CalcCall(p)

SpecCalc == Init /\ [][NextCalc]_vars

(***************************************************************************)
(* Doubt lifecycle                                                         *)
(***************************************************************************)
Exists(d) == doubts[d] # NoDoubt
Created(d) == doubts[d] = NoDoubt /\ doubts'[d] # NoDoubt
EscalateSaves(d) == esc.pc = "loaded" /\ esc.id = d /\ esc'.pc = "idle"
AnswerSaves(d) == ans.pc = "loaded" /\ ans.id = d /\ ans'.pc = "idle"

\* C1: on a cache miss the doubt is created with status resolved exactly when
\* the generated answer's confidence is at least 80, and pending otherwise
C1_MissStatusByConfidence ==
    [][\A d \in DoubtIds :
         Created(d) /\ ~doubts'[d].isFromCache =>
            /\ doubts'[d].confidence = ask.confidence
            /\ doubts'[d].status = "resolved" <=> doubts'[d].confidence >= 80
            /\ doubts'[d].status = "pending" <=> doubts'[d].confidence < 80]_vars

C1_Witness ==
    /\ ask.pc = "done" /\ ~ask.kgHit /\ ask.doubt # 0
    /\ ask.confidence = 80
    /\ doubts[ask.doubt].status = "resolved"

\* C2: an escalate request applied to an existing doubt, whatever the status
\* and the confidence it finds, leaves the doubt escalated with the flag set
\* (the request whose copy is still the stored status when it saves)
C2_EscalateFromAnyStatus ==
    [][\A d \in DoubtIds :
         /\ EscalateSaves(d)
         /\ doubts[d].status = esc.doc.status
         /\ doubts[d].escalated = esc.doc.escalated
         => doubts'[d].status = "escalated" /\ doubts'[d].escalated]_vars

C2_Witness ==
    \E d \in DoubtIds :
        /\ Exists(d) /\ doubts[d].status = "escalated" /\ doubts[d].escalated
        /\ doubts[d].answeredBy # Null /\ doubts[d].confidence >= 80

\* C3: under every interleaving of escalate and answer requests, an answered
\* doubt carries a resolution timestamp and the identity of the answerer
C3_AnsweredIsStamped ==
    \A d \in DoubtIds :
        Exists(d) /\ doubts[d].status = "answered" =>
            doubts[d].resolvedAt # Null /\ doubts[d].answeredBy # Null

C3_Witness ==
    \E d \in DoubtIds :
        /\ Exists(d) /\ doubts[d].status = "answered" /\ doubts[d].escalated
        /\ doubts[d].resolvedAt # Null

\* C4: once created, a doubt is never set to pending by escalate or answer
C4_NeverBackToPending ==
    [][\A d \in DoubtIds :
         Exists(d) /\ doubts'[d] # NoDoubt /\ doubts'[d].status = "pending"
            => doubts[d].status = "pending"]_vars

C4_Witness ==
    \E d \in DoubtIds :
        /\ Exists(d) /\ doubts[d].status = "answered" /\ ~doubts[d].escalated
        /\ doubts[d].confidence >= 80 /\ ~doubts[d].isFromCache

\* C5 as claimed: no operation changes the status of a resolved or answered doubt
C5_TerminalStates ==
    [][\A d \in DoubtIds :
         Exists(d) /\ doubts[d].status \in {"resolved", "answered"}
            => doubts'[d] # NoDoubt /\ doubts'[d].status = doubts[d].status]_vars

\* C5 as amended: a resolved or answered doubt changes status only when an
\* escalate request saves (to escalated) or an answer request saves (to answered)
C5_LeftOnlyByEscalateOrAnswer ==
    [][\A d \in DoubtIds :
         /\ Exists(d) /\ doubts[d].status \in {"resolved", "answered"}
         /\ doubts'[d] # doubts[d]
         => /\ doubts'[d] # NoDoubt
            /\ \/ EscalateSaves(d) /\ doubts'[d].status = "escalated"
               \/ AnswerSaves(d) /\ doubts'[d].status = "answered"]_vars

C5_Witness ==
    \E d \in DoubtIds :
        /\ Exists(d) /\ doubts[d].isFromCache /\ doubts[d].status = "escalated"
        /\ doubts[d].answeredBy = Null

(***************************************************************************)
(* The ask pipeline                                                        *)
(***************************************************************************)
\* C6: a lookup result of confidence 85 or more ends the request at once: the
\* doubt is created resolved, from cache, with source KNOWLEDGE_GRAPH, and the
\* generator, the video lookup and the writeback are not invoked
C6_CacheHitShortCircuits ==
    [][/\ ask.pc = "lookup" /\ ask'.kgConf >= 85 =>
            /\ ask'.pc = "done" /\ ask'.kgHit /\ ask'.doubt \in DoubtIds
            /\ Created(ask'.doubt)
            /\ doubts'[ask'.doubt].status = "resolved"
            /\ doubts'[ask'.doubt].isFromCache
            /\ doubts'[ask'.doubt].source = "KNOWLEDGE_GRAPH"
            /\ ask'.resp.isFromCache /\ ask'.resp.source = "KNOWLEDGE_GRAPH"
       /\ ask'.kgHit =>
            /\ ~ask'.invoked /\ ~ask'.videoCalled /\ ~ask'.saveCalled /\ ~ask'.embedded
            /\ kgQ' = kgQ /\ kgA' = kgA]_vars

C6_Witness ==
    /\ ask.pc = "done" /\ ask.kgHit /\ ask.kgConf = 85
    /\ ask.doubt # 0 /\ doubts[ask.doubt].status = "resolved"
    /\ doubts[ask.doubt].isFromCache

\* C7: the question-answer memory changes only in the writeback of a generated
\* answer of confidence 80 or more, every such answer has its writeback
\* attempted, and a human answer is written back with confidence 100
C7_WritebackGate ==
    [][/\ (kgQ' # kgQ \/ kgA' # kgA) => ask.pc = "save" /\ ask.confidence >= 80
       /\ (ask.pc = "save" /\ ask'.pc = "done" /\ ask.confidence < 80) =>
             ~ask'.embedded /\ ~ask'.stored
       /\ (ask.pc = "save" /\ ask'.pc = "done" /\ ask.confidence >= 80) =>
             ask'.saveCalled /\ ask'.embedded
       /\ \A q \in Queries : kgD'[q] # kgD[q] =>
             kgD'[q] = 100 /\ ans.pc = "loaded" /\ ans.saveToGraph /\ ans.doc.query = q]_vars

C7_Witness ==
    /\ ask.pc = "done" /\ ask.confidence = 79
    /\ ask.saveCalled /\ ~ask.embedded /\ ~ask.stored

\* C8: a generator failure for a missing key, a 401, or a 429 / 413 is answered
\* with HTTP 401 and errorCode NO_API_KEY, INVALID_API_KEY, API_LIMIT_REACHED
C8_ProviderErrorCodes ==
    ask.pc = "done" /\ ask.cause \in {"NO_API_KEY", "INVALID_API_KEY", "API_LIMIT_REACHED"} =>
        ask.resp.code = 401 /\ ask.resp.errorCode = ask.cause

\* C9: a failure of the embedding provider, the graph store, the video search
\* or the writeback falls back (no match, no related names, no video, nothing
\* stored) and the request still succeeds: a 500 comes from the generator only
C9_DegradationNever500 ==
    /\ ask.fault \in {"embedding", "store"} =>
          ask.pc = "generate" /\ ~ask.kgHit /\ ask.kgConf = 0
    /\ ask.fault = "graph" => ask.pc = "lookup" /\ ~ask.related
    /\ ask.fault = "video" => ask.pc = "save" /\ ask.video = Null
    /\ ask.fault = "writeback" => ask.pc = "done" /\ ~ask.stored
    /\ ask.pc = "done" /\ ask.cause = Null =>
          ask.resp.code = 200 /\ ask.resp.success /\ ask.doubt \in DoubtIds
    /\ ask.pc = "done" /\ ask.resp.code # 200 => ask.cause # Null

C9_Witness ==
    /\ ask.pc = "done" /\ ask.degraded /\ ask.fault = "writeback"
    /\ ask.video = Null /\ ask.videoCalled
    /\ ask.resp.code = 200 /\ ask.resp.success

C11_AtMostThreeAdmitted == win.adm <= GuestLimit

(***************************************************************************)
(* Content processing                                                      *)
(***************************************************************************)
\* C12: once a cancel has been accepted, and until a reprocess is accepted,
\* the content's processingStatus is failed: no run of processContent sets
\* it to processing or completed
C12_CancelledStaysFailed == cancelled => processingStatus = "failed"

\* C13: when cancelMLRequest runs for an accepted cancel, every extraction
\* call outstanding for the content item has its controller aborted
C13_OutstandingCallAborted ==
    [][cancel.pc = "saved" /\ cancel'.pc = "idle" =>
          \A j \in Jobs : job[j].pc = "extract" => job'[j].aborted]_vars

(***************************************************************************)
(* Lookup                                                                  *)
(***************************************************************************)
\* C14: when a human answer is stored under the key of the asked question,
\* the lookup step of ask answers from memory and the generator is not run
C14_ExactKeyFastPath ==
    [][(ask.pc = "lookup" /\ ask'.pc # "lookup" /\ kgD[ask.query] = 100) =>
          ask'.pc = "done" /\ ~ask'.invoked /\ ask'.resp.isFromCache]_vars

Survivors(rows) == { c \in rows : c.sim >= 85 }
MaxSim(rows) == CHOOSE m \in { c.sim : c \in rows } : \A c \in rows : c.sim <= m

C17_CourseAffinity ==
    (lookup.pc = "done" /\ lookup.ok /\ Survivors(lookup.rows) # {}) =>
        LET same == { c \in Survivors(lookup.rows) : c.same }
        IN /\ lookup.result.match
           /\ same # {} => lookup.result.confidence = MaxSim(same)
           /\ same = {} => lookup.result.confidence = MaxSim(Survivors(lookup.rows))

C17_Witness ==
    /\ lookup.pc = "done" /\ lookup.ok
    /\ lookup.rows = {[sim |-> 90, same |-> FALSE], [sim |-> 86, same |-> TRUE]}
    /\ lookup.result.confidence = 86

(***************************************************************************)
(* Conversational exchanges and the video suggestion                       *)
(***************************************************************************)
\* C15: an ask answered by a conversational short-circuit does not run the
\* external model, does not look a video up and writes nothing back to memory
C15_ConversationalIsInert ==
    ask.conv => ~ask.invoked /\ ~ask.videoCalled /\ ~ask.saveCalled /\ ~ask.stored

\* C20: the video lookup step leaves the confidence and the pending response
\* as they were whatever its outcome, a failed lookup leaves no video, and
\* the doubt created afterwards takes its status and confidence from that
\* confidence alone and is reported with success
C20_VideoNeverGates ==
    [][/\ (ask.pc = "video" /\ ask'.pc # "video") =>
             /\ ask'.pc = "save"
             /\ ask'.confidence = ask.confidence
             /\ ask'.resp = ask.resp
             /\ ask'.fault = "video" => ask'.video = Null
       /\ (ask.pc = "save" /\ ask'.pc # "save") =>
             /\ ask'.doubt \in DoubtIds
             /\ doubts'[ask'.doubt].confidence = ask.confidence
             /\ doubts'[ask'.doubt].status = MissStatus(ask.confidence)
             /\ doubts'[ask'.doubt].suggestedVideo = ask.video
             /\ ask'.resp.code = 200 /\ ask'.resp.success]_vars

C20_Witness ==
    /\ ask.pc = "save" /\ ask.videoCalled /\ ask.fault = "video"
    /\ ask.video = Null /\ ask.confidence >= 80

(***************************************************************************)
(* Confidence scorer                                                       *)
(***************************************************************************)
\* C18: the final score of calculateConfidence lies in 0..100 for every
\* combination of inputs
C18_ScoreInRange ==
    calc.pc = "done" => calc.finalScore >= 0 /\ calc.finalScore <= 100

AllZero ==
    [aiConfidence |-> 0, hasContext |-> FALSE, hasSelectedText |-> FALSE,
     hasVisualContext |-> FALSE, responseLength |-> 0, hasFormatting |-> 0,
     isVerifiedSource |-> FALSE]

\* the all-zero call scores 5, the floor of the response component
C18_Witness == calc.pc = "done" /\ calc.p = AllZero /\ calc.finalScore = 5

\* C19: the call that differs from a call without selected text only in
\* hasSelectedText has a context component and a final score at least as high
C19_SelectedTextMonotone ==
    (calc.pc = "done" /\ ~calc.p.hasSelectedText) =>
        LET q == [calc.p EXCEPT !.hasSelectedText = TRUE]
        IN /\ contextScore(TRUE, q.hasContext, q.hasVisualContext) >= calc.contextQuality
           /\ calculateConfidence(q) >= calc.finalScore

C19_Witness ==
    /\ calc.pc = "done" /\ ~calc.p.hasSelectedText
    /\ calc.p.hasContext /\ calc.p.hasVisualContext
    /\ calc.contextQuality = 13
    /\ calculateConfidence([calc.p EXCEPT !.hasSelectedText = TRUE]) > calc.finalScore


(***************************************************************************)
(* C21: an escalate request that answers with success has created exactly *)
(* one doubt_escalated notification, and pushed exactly one, for each      *)
(* instructor listed on the doubt's course, and none for anyone else.      *)
(***************************************************************************)
Listed(l) == { l[i] : i \in 1..Len(l) }

VideoWindowCall ==
    /\ ground.pc = "done" /\ ground.visualContext /\ ground.contentType = "video"
    /\ ground.sel.mins # None /\ ground.n > 0

C24_AtMostOneCourse == \A q \in kgQ : Cardinality(kgC[q]) <= 1

(***************************************************************************)
(* C25: no writeback lowers the confidence stored on an answer or on a     *)
(* stored doubt key.                                                       *)
(***************************************************************************)
C25_ConfidenceNeverDecreases ==
    [][/\ \A t \in AnswerTexts : kgA[t] # None => kgA'[t] >= kgA[t]
       /\ \A q \in Queries : kgD[q] # None => kgD'[q] >= kgD[q]]_vars


(***************************************************************************)
(* C26: doubts are removed only by the cleanup of delete-content and       *)
(* delete-course, and after delete-course no doubt of the course remains,  *)
(* the doubts asked without a content reference included.  Every doubt of  *)
(* the model belongs to the one course.                                    *)
(***************************************************************************)
C26_CleanupComplete ==
    courseLive = "deleted" => \A d \in DoubtIds : doubts[d] = NoDoubt

\* the first half of C26: a step removes a doubt only if the doubt refers to
\* the content being cleaned up
C26_RemovedOnlyByCleanup ==
    [][\A d \in DoubtIds :
          (doubts[d] # NoDoubt /\ doubts'[d] = NoDoubt) => doubts[d].contentId = ContentId]_vars


(***************************************************************************)
(* C27: the response of an ask that generated its answer reports isSaved   *)
(* only when the request wrote the answer to the semantic memory: a        *)
(* writeback skipped for a confidence below 80, or given up after an       *)
(* embedding or store failure, is reported with isSaved false.             *)
(***************************************************************************)
C27_IsSavedMeansStored ==
    (ask.pc = "done" /\ ask.resp.code = 200 /\ ~ask.resp.isFromCache) =>
        (ask.resp.isSaved => ask.stored)


(***************************************************************************)
(* C28: when the model answers an ask that has neither selected text nor a *)
(* visual region, the confidence is at most 76 whatever the length and the *)
(* formatting of the answer, so the doubt is created pending and no memory *)
(* record is written.                                                      *)
(***************************************************************************)
C28_NoSelectionStaysPending ==
    (calc.pc = "scored" /\ ~calc.hasSelectedText /\ ~calc.hasVisualContext) =>
        /\ calc.confidence <= 76
        /\ calc.status = "pending"
        /\ calc.saved \in {"skipped", "null"}

C28_Witness ==
    /\ calc.pc = "scored" /\ ~calc.hasSelectedText /\ ~calc.hasVisualContext
    /\ calc.confidence = 76 /\ calc.status = "pending" /\ calc.saved = "null"


(***************************************************************************)
(* C29: whenever no guest request is in flight, a counter key that is in   *)
(* the store carries an expiry, whatever the interleaving with the key's   *)
(* expiry and also after a failure between incr and expire; a key without  *)
(* expiry would reject the guest for ever once it reaches the limit.       *)
(***************************************************************************)
C29_KeysCarryExpiry ==
    (NoneInFlight /\ redisVal # None) => redisTTL # None


(***************************************************************************)
(* C30: at most one run of processContent is active for the content item   *)
(* at any time: neither a reprocess nor a prepare of a failed item starts  *)
(* a run while an earlier one has not finished.                            *)
(***************************************************************************)
C30_OneActiveJob == Cardinality({ j \in Jobs : ~Finished(j) }) <= 1

====
